---- MODULE Spec2Model ----
(***************************************************************************)
(* The Velvet service wrapper (lib/Velvet/VelvetImpl.py): one instance of  *)
(* class Velvet and the calls a client makes on it, one at a time.  A call *)
(* of run_velveth is followed statement by statement (pc holds the source  *)
(* line about to run) until it returns or raises.                          *)
(***************************************************************************)
EXTENDS Integers, Sequences, FiniteSets, TLC

\* Bounds of the model.
MaxChannels == 1      \* entries in a reads_channels list
MaxContigs == 1       \* records in the output FASTA file
MaxRetcode == 1       \* exit codes 0..MaxRetcode of the assembler binary

ContigLengths == {1, 3}

VARIABLES
  klass,        \* the class attributes of Velvet
  self,         \* the instance attributes
  config,       \* the config object the constructor was given
  pc,           \* "idle", the line of run_velveth about to run, or "done"
  method,       \* the method being called
  ctx,          \* the ctx argument of the call
  params,       \* the params object of the call, as it is now
  paramsIn,     \* the params object as the caller passed it
  env,          \* what the binary would exit with and what it would write
  steps,        \* the steps of the flow begun so far in this call
  exc,          \* the exception the call ended in
  result,       \* the value the call returned
  velveth_cmd,  \* the argv under construction
  report,       \* the report message
  stdout        \* number of messages logged by this call

vars == <<klass, self, config, pc, method, ctx, params, paramsIn, env, steps,
          exc, result, velveth_cmd, report, stdout>>

-----------------------------------------------------------------------------
\* Values

Str == [type |-> "str", items |-> <<>>]

Range(s) == {s[i] : i \in DOMAIN s}

Restrict(f, K) == [k \in K |-> f[k]]

EmptyDict == [k \in {} |-> Str]

\* str(n) for the small non-negative integers of the model
Digits == <<"0", "1", "2", "3", "4", "5", "6", "7", "8", "9">>

str(n) == Digits[n + 1]

SeqsUpTo(S, n) == UNION {[1..k -> S] : k \in 0..n}

\* one entry of reads_channels
ReadsChannel == [read_type : {"short", "reference"},
                 file_layout : {"separate", "interleaved"}]

HashLengthValues == {[type |-> t, items |-> <<>>] : t \in {"int", "bool", "str", "float"}}

ReadsChannelsValues ==
  {[type |-> "list", items |-> s] : s \in SeqsUpTo(ReadsChannel, MaxChannels)}
  \cup {[type |-> t, items |-> <<>>] : t \in {"dict", "str"}}

FullVelvethParams ==
  [workspace_name : {Str}, out_folder : {Str}, out_fodler : {Str},
   hash_length : HashLengthValues, reads_channels : ReadsChannelsValues]

VelvethKeys == {"workspace_name", "out_folder", "out_fodler", "hash_length",
                "reads_channels"}

\* the params objects a caller may pass: any subset of the keys
VelvethParams == {Restrict(f, K) : f \in FullVelvethParams, K \in SUBSET VelvethKeys}

VelvetgParams == {Restrict([workspace_name |-> Str, wk_folder |-> Str], K) :
                    K \in SUBSET {"workspace_name", "wk_folder"}}

Contexts == {Restrict([token |-> Str], K) : K \in SUBSET {"token"}}

Environments == [retcode : 0..MaxRetcode, contigs : SeqsUpTo(ContigLengths, MaxContigs)]

NoEnvironment == [retcode |-> 0, contigs |-> <<>>]

\* what create_extended_report answers
report_info == [name |-> "kb_velveth_report", ref |-> "1/2/3"]

-----------------------------------------------------------------------------
\* Exceptions

NoExc == [type |-> "None", msg |-> <<>>]

ValueError(m) == [type |-> "ValueError", msg |-> m]

KeyError(k) == [type |-> "KeyError", msg |-> <<k>>]

NameError(n) == [type |-> "NameError", msg |-> <<"name is not defined", n>>]

AttributeError(n) == [type |-> "AttributeError", msg |-> <<"Velvet instance has no attribute", n>>]

\* the names the module's header binds (lines 4-11)
ModuleGlobals == {"os", "SeqIO", "pprint", "pformat", "AssemblyUtil", "KBaseReport",
                  "time", "Velvet"}

Methods == {"log", "process_params", "__init__", "run_velveth", "run_velvetg", "status"}

Velvet == [VERSION |-> "0.0.1",
           GIT_URL |-> "https://github.com/kbaseapps/Velvet.git",
           GIT_COMMIT_HASH |-> "f9dd477aaf7d370fb238d63483ed4dd3e6856f64",
           VELVETH |-> "/kb/module/velvet/velveth",
           VELVETG |-> "/kb/module/velvet/velvetg"]

\* hasattr(self, name): instance attributes, then class attributes and methods
hasattr(name) == name \in (DOMAIN self \cup DOMAIN klass \cup Methods)

\* isinstance(v, int): bool is a subclass of int
isinstance_int(v) == v.type \in {"int", "bool"}

-----------------------------------------------------------------------------
\* Construction

Cwd == <<"/", "kb", "module">>

\* os.path.abspath on a path given as its sequence of components
abspath(p) == IF Len(p) > 0 /\ p[1] = "/" THEN p ELSE Cwd \o p

Configs == {[scratch |-> s, workspace_url |-> "https://kbase/ws"] :
              s \in {<<"/", "kb", "module", "work", "tmp">>, <<"work", "tmp">>}}

Environ == [SDK_CALLBACK_URL |-> "http://callback"]

__init__(cfg) == [cfg |-> cfg,
                  callbackURL |-> Environ.SDK_CALLBACK_URL,
                  workspaceURL |-> cfg.workspace_url,
                  scratch |-> abspath(cfg.scratch)]

-----------------------------------------------------------------------------
\* process_params: the exception it raises and the number of messages it logs

process_params_no_type_check(p) ==
  IF "workspace_name" \notin DOMAIN p
    THEN [exc |-> ValueError(<<"a string reprsenting workspace_name parameter is required">>), logged |-> 0]
  ELSE IF "out_folder" \notin DOMAIN p
    THEN [exc |-> ValueError(<<"a string reprsenting out_folder parameter is required">>), logged |-> 0]
  ELSE IF "hash_length" \notin DOMAIN p
    THEN [exc |-> ValueError(<<"an integerreprsenting  hash_length parameter is required">>), logged |-> 0]
  ELSE IF "reads_channels" \notin DOMAIN p
    THEN [exc |-> ValueError(<<"key-val pairs representing the reads_channels parameter is required">>), logged |-> 0]
  ELSE IF p["reads_channels"].type # "list"
    THEN [exc |-> ValueError(<<"reads_channels must be a list">>), logged |-> 0]
  ELSE [exc |-> NoExc, logged |-> Len(p["reads_channels"].items)]

process_params_no_list_check(p) ==
  IF "workspace_name" \notin DOMAIN p
    THEN [exc |-> ValueError(<<"a string reprsenting workspace_name parameter is required">>), logged |-> 0]
  ELSE IF "out_folder" \notin DOMAIN p
    THEN [exc |-> ValueError(<<"a string reprsenting out_folder parameter is required">>), logged |-> 0]
  ELSE IF "hash_length" \notin DOMAIN p
    THEN [exc |-> ValueError(<<"an integerreprsenting  hash_length parameter is required">>), logged |-> 0]
  ELSE IF "hash_length" \in DOMAIN p /\ ~isinstance_int(p["hash_length"])
    THEN [exc |-> ValueError(<<"hash_length must be of type int">>), logged |-> 0]
  ELSE IF "reads_channels" \notin DOMAIN p
    THEN [exc |-> ValueError(<<"key-val pairs representing the reads_channels parameter is required">>), logged |-> 0]
  ELSE [exc |-> NoExc, logged |-> Len(p["reads_channels"].items)]

process_params(p) ==
  IF "workspace_name" \notin DOMAIN p
    THEN [exc |-> ValueError(<<"a string reprsenting workspace_name parameter is required">>), logged |-> 0]
  ELSE IF "out_folder" \notin DOMAIN p
    THEN [exc |-> ValueError(<<"a string reprsenting out_folder parameter is required">>), logged |-> 0]
  ELSE IF "hash_length" \notin DOMAIN p
    THEN [exc |-> ValueError(<<"an integerreprsenting  hash_length parameter is required">>), logged |-> 0]
  ELSE IF "hash_length" \in DOMAIN p /\ ~isinstance_int(p["hash_length"])
    THEN [exc |-> ValueError(<<"hash_length must be of type int">>), logged |-> 0]
  ELSE IF "reads_channels" \notin DOMAIN p
    THEN [exc |-> ValueError(<<"key-val pairs representing the reads_channels parameter is required">>), logged |-> 0]
  ELSE IF p["reads_channels"].type # "list"
    THEN [exc |-> ValueError(<<"reads_channels must be a list">>), logged |-> 0]
  ELSE [exc |-> NoExc, logged |-> Len(p["reads_channels"].items)]

-----------------------------------------------------------------------------
\* The state after construction: no call in progress

Init ==
  /\ klass = Velvet
  /\ config \in Configs
  /\ self = __init__(config)
  /\ pc = "idle"
  /\ method = "none"
  /\ ctx = EmptyDict
  /\ params = EmptyDict
  /\ paramsIn = EmptyDict
  /\ env = NoEnvironment
  /\ steps = <<>>
  /\ exc = NoExc
  /\ result = <<>>
  /\ velveth_cmd = <<>>
  /\ report = <<>>
  /\ stdout = 0

\* the call ends in exception e
Raise(e) ==
  /\ exc' = e
  /\ pc' = "done"

\* run_velveth is called; line 116 logs the params
Call_run_velveth ==
  /\ pc = "idle"
  /\ \E c \in Contexts, p \in VelvethParams, e \in Environments :
       /\ ctx' = c
       /\ params' = p
       /\ paramsIn' = p
       /\ env' = e
  /\ method' = "run_velveth"
  /\ stdout' = 1
  /\ pc' = "118"
  /\ UNCHANGED <<klass, self, config, steps, exc, result, velveth_cmd, report>>

\* line 118: token = ctx['token']
velveth_L118 ==
  /\ pc = "118"
  /\ IF "token" \in DOMAIN ctx
       THEN pc' = "121" /\ exc' = exc
       ELSE Raise(KeyError("token"))
  /\ UNCHANGED <<klass, self, config, method, ctx, params, paramsIn, env, steps,
                 result, velveth_cmd, report, stdout>>

\* line 121, STEP 1: self.process_params(params)
velveth_L121 ==
  /\ pc = "121"
  /\ steps' = Append(steps, "validate")
  /\ LET r == process_params(params) IN
       /\ stdout' = stdout + r.logged
       /\ IF r.exc = NoExc
            THEN pc' = "124" /\ exc' = exc
            ELSE Raise(r.exc)
  /\ UNCHANGED <<klass, self, config, method, ctx, params, paramsIn, env,
                 result, velveth_cmd, report>>

\* line 124 written as params.setdefault('out_fodler', params['out_folder'])
velveth_L124_setdefault ==
  /\ pc = "124"
  /\ steps' = Append(steps, "build argv")
  /\ IF "out_fodler" \in DOMAIN params
       THEN pc' = "133" /\ exc' = exc /\ params' = params
       ELSE /\ pc' = "133"
            /\ exc' = exc
            /\ params' = [k \in DOMAIN params \cup {"out_fodler"} |->
                            IF k \in DOMAIN params THEN params[k] ELSE params["out_folder"]]
  /\ UNCHANGED <<klass, self, config, method, ctx, paramsIn, env,
                 result, velveth_cmd, report, stdout>>

\* lines 124-127, STEP 2: the parameters the argv is built from are read;
\* hash_length, workspace_name and reads_channels are present after STEP 1
velveth_L124 ==
  /\ pc = "124"
  /\ steps' = Append(steps, "build argv")
  /\ IF "out_fodler" \in DOMAIN params
       THEN pc' = "133" /\ exc' = exc
       ELSE Raise(KeyError("out_fodler"))
  /\ UNCHANGED <<klass, self, config, method, ctx, params, paramsIn, env,
                 result, velveth_cmd, report, stdout>>

\* line 133, STEP 3: velveth_cmd = [self.MEGAHITH]; the class defines VELVETH
\* and VELVETG only, so the lookup raises.  Were the attribute there, line 136
\* would raise on the name datetime, which the module never imports.
velveth_L133 ==
  /\ pc = "133"
  /\ IF hasattr("MEGAHITH")
       THEN /\ velveth_cmd' = <<<<"file", "MEGAHITH">>>>
            /\ IF "datetime" \in ModuleGlobals
                 THEN pc' = "137" /\ exc' = exc
                 ELSE Raise(NameError("datetime"))
       ELSE /\ velveth_cmd' = velveth_cmd
            /\ Raise(AttributeError("MEGAHITH"))
  /\ UNCHANGED <<klass, self, config, method, ctx, params, paramsIn, env, steps,
                 result, report, stdout>>

\* run_velvetg: its body is empty (lines 307-308); line 311 reads the name
\* output, which nothing has bound
Call_run_velvetg ==
  /\ pc = "idle"
  /\ \E c \in Contexts, p \in VelvetgParams :
       /\ ctx' = c
       /\ params' = p
       /\ paramsIn' = p
  /\ method' = "run_velvetg"
  /\ IF "output" \in ModuleGlobals
       THEN /\ result' = <<"output">>
            /\ exc' = exc
            /\ pc' = "done"
       ELSE /\ result' = result
            /\ Raise(NameError("output"))
  /\ UNCHANGED <<klass, self, config, env, steps, velveth_cmd, report, stdout>>

\* process_params called on its own
Call_process_params ==
  /\ pc = "idle"
  /\ \E p \in VelvethParams :
       /\ params' = p
       /\ paramsIn' = p
       /\ LET r == process_params(p) IN
            /\ stdout' = r.logged
            /\ exc' = r.exc
  /\ method' = "process_params"
  /\ pc' = "done"
  /\ UNCHANGED <<klass, self, config, ctx, env, steps, result, velveth_cmd, report>>

\* status: returns the version record
Call_status ==
  /\ pc = "idle"
  /\ \E c \in Contexts : ctx' = c
  /\ method' = "status"
  /\ result' = <<[state |-> "OK", message |-> "", version |-> klass.VERSION,
                  git_url |-> klass.GIT_URL,
                  git_commit_hash |-> klass.GIT_COMMIT_HASH]>>
  /\ pc' = "done"
  /\ UNCHANGED <<klass, self, config, params, paramsIn, env, steps, exc,
                 velveth_cmd, report, stdout>>

\* the caller has the outcome; the call's locals and arguments are gone
Return ==
  /\ pc = "done"
  /\ pc' = "idle"
  /\ method' = "none"
  /\ ctx' = EmptyDict
  /\ params' = EmptyDict
  /\ paramsIn' = EmptyDict
  /\ env' = NoEnvironment
  /\ steps' = <<>>
  /\ exc' = NoExc
  /\ result' = <<>>
  /\ velveth_cmd' = <<>>
  /\ report' = <<>>
  /\ stdout' = 0
  /\ UNCHANGED <<klass, self, config>>

Next ==
  \/ Call_run_velveth
  \/ velveth_L118
  \/ velveth_L121
  \/ velveth_L124
  \/ velveth_L133
  \/ Call_run_velvetg
  \/ Call_process_params
  \/ Call_status
  \/ Return

Spec == Init /\ [][Next]_vars

-----------------------------------------------------------------------------
\* Vocabulary of the properties

\* a params object with the four required fields, hash_length an integer
\* (Python counts a bool as one) and reads_channels a list
WellFormed(p) ==
  /\ {"workspace_name", "out_folder", "hash_length", "reads_channels"} \subseteq DOMAIN p
  /\ p["hash_length"].type \in {"int", "bool"}
  /\ p["reads_channels"].type = "list"

\* the flow of one run_velveth call
Flow == <<"validate", "build argv", "spawn", "wait", "locate", "store", "parse",
          "report", "return">>

IsPrefix(s, t) == Len(s) <= Len(t) /\ \A i \in 1..Len(s) : s[i] = t[i]

Finished(m) == pc = "done" /\ method = m

HasToken == "token" \in DOMAIN ctx

RECURSIVE SumSeq(_)
SumSeq(s) == IF s = <<>> THEN 0 ELSE Head(s) + SumSeq(Tail(s))

\* the argv segment the entry rc of reads_channels stands for
Segment(rc) ==
  <<<<"-", "file_format">>, <<"-", rc.read_type>>>>
  \o (IF rc.read_type = "reference" THEN <<<<"file", "reference_file">>>> ELSE <<>>)
  \o (IF rc.file_layout = "separate"
        THEN <<<<"-", "separate">>, <<"file", "left_file">>, <<"file", "right_file">>>>
        ELSE <<<<"file", "read_file">>>>)

RECURSIVE Segments(_)
Segments(rcs) == IF rcs = <<>> THEN <<>> ELSE Segment(Head(rcs)) \o Segments(Tail(rcs))

-----------------------------------------------------------------------------
\* C1 as stated: process_params raises ValueError exactly for the params that
\* lack a required field or hold a non-integer hash_length or a non-list
\* reads_channels, and run_velveth raises ValueError for every such params.
C1_AsStated ==
  /\ Finished("process_params") =>
       IF WellFormed(paramsIn) THEN exc = NoExc ELSE exc.type = "ValueError"
  /\ (Finished("run_velveth") /\ ~WellFormed(paramsIn)) => exc.type = "ValueError"

\* C1 amended: process_params raises ValueError exactly for those params;
\* run_velveth raises ValueError for them when its ctx holds a token, and
\* KeyError when it does not, whatever the params.
C1_Validation ==
  /\ Finished("process_params") =>
       IF WellFormed(paramsIn) THEN exc = NoExc ELSE exc.type = "ValueError"
  /\ (Finished("run_velveth") /\ HasToken /\ ~WellFormed(paramsIn)) =>
       exc.type = "ValueError"
  /\ (Finished("run_velveth") /\ ~HasToken) => exc = KeyError("token")

C1_Witness ==
  /\ Finished("run_velveth")
  /\ HasToken
  /\ {"workspace_name", "out_folder", "hash_length", "reads_channels"} \subseteq DOMAIN paramsIn
  /\ paramsIn["hash_length"].type = "str"
  /\ exc.type = "ValueError"

\* C2: a run_velveth call with validated params whose assembler exits with a
\* non-zero code c ends in an error whose message holds c, and returns nothing.
C2_ExitCodeSurfaced ==
  (Finished("run_velveth") /\ HasToken /\ WellFormed(paramsIn) /\ env.retcode # 0) =>
    /\ exc # NoExc
    /\ str(env.retcode) \in Range(exc.msg)
    /\ result = <<>>

C4_ReturnsReport ==
  (Finished("run_velveth") /\ HasToken /\ WellFormed(paramsIn)
     /\ env.retcode = 0 /\ Len(env.contigs) >= 1) =>
    /\ exc = NoExc
    /\ result = <<[report_name |-> report_info.name, report_ref |-> report_info.ref]>>

\* C5: every run_velvetg call returns a one-element list whose record has the
\* fields report_name and report_ref.
C5_VelvetgReturns ==
  Finished("run_velvetg") =>
    /\ exc = NoExc
    /\ Len(result) = 1
    /\ {"report_name", "report_ref"} \subseteq DOMAIN result[1]

\* C6: for an output file of n >= 1 records the report message states n
\* contigs and the average length sum/n, as an exact quotient.
C6_ReportStatistics ==
  (Finished("run_velveth") /\ HasToken /\ WellFormed(paramsIn)
     /\ env.retcode = 0 /\ Len(env.contigs) >= 1) =>
    /\ Len(report) = 1
    /\ report[1].contigs = Len(env.contigs)
    /\ report[1].avg[1] * Len(env.contigs) = SumSeq(env.contigs) * report[1].avg[2]

\* C9: the argv run_velveth builds starts with the assembler binary and ends in
\* the segments of the entries of reads_channels, in list order.
C9_Argv ==
  (Finished("run_velveth") /\ HasToken /\ WellFormed(paramsIn)) =>
    /\ Len(velveth_cmd) >= 1
    /\ velveth_cmd[1] = <<"file", klass.VELVETH>>
    /\ LET segs == Segments(paramsIn["reads_channels"].items) IN
         /\ Len(velveth_cmd) >= 1 + Len(segs)
         /\ SubSeq(velveth_cmd, Len(velveth_cmd) - Len(segs) + 1, Len(velveth_cmd)) = segs

\* C8: whatever calls were made, the instance holds what the constructor set
\* (its scratch path above all), the class attributes are those of the class
\* statement, and the params object of the call is as the caller passed it.
C8_Frame ==
  /\ self.scratch = abspath(config.scratch)
  /\ self = __init__(config)
  /\ klass = Velvet
  /\ params = paramsIn

C8_Witness ==
  /\ Finished("run_velveth")
  /\ exc = AttributeError("MEGAHITH")
  /\ "out_fodler" \in DOMAIN paramsIn

\* C10: with exit code 0 and an output file of zero records run_velveth ends
\* in a division by zero after the assembly was stored and before any report
\* was made, and returns nothing.
C10_EmptyOutput ==
  (Finished("run_velveth") /\ HasToken /\ WellFormed(paramsIn)
     /\ env.retcode = 0 /\ env.contigs = <<>>) =>
    /\ exc.type = "ZeroDivisionError"
    /\ "store" \in Range(steps)
    /\ "report" \notin Range(steps)
    /\ result = <<>>

====
